---- MODULE Spec2Model ----
(***************************************************************************)
(* A model of pytest_gitlab_fold/__init__.py: the fold-marker engine       *)
(* (GitLabContext), the section naming helpers and the process-wide        *)
(* sequence allocator.                                                     *)
(*                                                                         *)
(* Python strings are modelled as sequences of one-character strings, so   *)
(* that formatting, joining and suffix tests are computed and not assumed. *)
(***************************************************************************)
EXTENDS Naturals, Sequences, FiniteSets

\* ------------------------------------------------------------------ bounds

\* Total number of sequence numbers handed out in one behaviour.
MaxAlloc == 3
\* Nesting depth of "with folding_output(...)" blocks.
MaxDepth == 2
\* Calls each concurrent worker makes to get_and_increment.
MaxCalls == 2

\* ------------------------------------------------------- python primitives

\* Python's None where a str is expected (no character sequence equals it).
None == <<"None">>

NL == "\n"

\* str.lower() on one character (the model's capitals are X and Y).
Lower(c) ==
    CASE c = "X" -> "x"
      [] c = "Y" -> "y"
      [] OTHER -> c

\* PUNCT_RE = \W+ : the characters \w matches, among those the model uses.
WordChars ==
    {"a", "b", "c", "d", "e", "f", "g", "h", "i", "j", "k", "l", "m", "n",
     "o", "p", "q", "r", "s", "t", "u", "v", "w", "x", "y", "z", "X", "Y",
     "_", "0", "1", "2", "3", "4", "5", "6", "7", "8", "9"}

EndsWith(s, suffix) ==
    /\ Len(suffix) <= Len(s)
    /\ SubSeq(s, Len(s) - Len(suffix) + 1, Len(s)) = suffix

StartsWith(s, prefix) ==
    /\ Len(prefix) <= Len(s)
    /\ SubSeq(s, 1, Len(prefix)) = prefix

RECURSIVE Join(_, _)
\* sep.join(parts)
Join(sep, parts) ==
    IF parts = <<>> THEN <<>>
    ELSE IF Len(parts) = 1 THEN parts[1]
    ELSE parts[1] \o sep \o Join(sep, Tail(parts))

Digits == <<"0", "1", "2", "3", "4", "5", "6", "7", "8", "9">>

RECURSIVE Str(_)
\* str(n) for a non-negative int
Str(n) ==
    IF n < 10 THEN <<Digits[n + 1]>>
    ELSE Str(n \div 10) \o <<Digits[(n % 10) + 1]>>

\* s.lower()
LowerStr(s) == [i \in 1..Len(s) |-> Lower(s[i])]

RECURSIVE SubPunct(_)
\* PUNCT_RE.sub("-", s): every maximal run of non-word characters becomes "-"
SubPunct(s) ==
    IF s = <<>> THEN <<>>
    ELSE IF Head(s) \in WordChars THEN <<Head(s)>> \o SubPunct(Tail(s))
    ELSE IF Len(s) > 1 /\ s[2] \notin WordChars THEN SubPunct(Tail(s))
    ELSE <<"-">> \o SubPunct(Tail(s))

RECURSIVE LStrip(_, _)
LStrip(s, c) == IF s # <<>> /\ Head(s) = c THEN LStrip(Tail(s), c) ELSE s

RECURSIVE RStrip(_, _)
RStrip(s, c) ==
    IF s # <<>> /\ s[Len(s)] = c THEN RStrip(SubSeq(s, 1, Len(s) - 1), c) ELSE s

\* s.strip(c)
Strip(s, c) == RStrip(LStrip(s, c), c)

\* ------------------------------------------------------- module functions

normalize_name(name) == Strip(SubPunct(LowerStr(name)), "-")

\* os.getpid(): fixed for the life of the process.
Pid == 42

\* The default of section_name's prefix argument: f"py-{os.getpid()}".
Prefix == <<"p", "y", "-">> \o Str(Pid)

\* counter[name] on a defaultdict(int): a missing key reads as int() = 0.
CounterGet(cnt, name) == IF name \in DOMAIN cnt THEN cnt[name] ELSE 0

\* counter[name] = v
CounterSet(cnt, name, v) ==
    [k \in (DOMAIN cnt) \cup {name} |-> IF k = name THEN v ELSE cnt[k]]

\* A get_and_increment that keeps one number for all names.
get_and_increment_OneCounter(cnt, name) ==
    LET n == CounterGet(cnt, <<"*">>)
    IN [n |-> n, counter |-> CounterSet(cnt, <<"*">>, n + 1)]

\* get_and_increment: the number returned and the counter afterwards.
get_and_increment(cnt, name) ==
    LET n == CounterGet(cnt, name)
    IN [n |-> n, counter |-> CounterSet(cnt, name, n + 1)]

\* ".".join(filter(bool, [prefix, name, str(n)]))
section_name(name, n) ==
    Join(<<".">>, SelectSeq(<<Prefix, name, Str(n)>>, LAMBDA p : p # <<>>))

StartToken ==
    <<"g", "i", "t", "l", "a", "b", "_", "f", "o", "l", "d", ":",
      "s", "t", "a", "r", "t", ":">>

EndToken ==
    <<"g", "i", "t", "l", "a", "b", "_", "f", "o", "l", "d", ":",
      "e", "n", "d", ":">>

section_marks(section, line_end) ==
    <<StartToken \o section \o line_end, EndToken \o section \o line_end>>

\* A new_section that allocates on the name as given, not as normalized.
new_section_RawKey(cnt, name) ==
    LET nm == normalize_name(name)
        r == get_and_increment(cnt, name)
    IN [section |-> section_name(nm, r.n), name |-> nm, n |-> r.n,
        counter |-> r.counter]

\* new_section: normalize, allocate, build the identifier.
new_section(cnt, name) ==
    LET nm == normalize_name(name)
        r == get_and_increment(cnt, nm)
    IN [section |-> section_name(nm, r.n), name |-> nm, n |-> r.n,
        counter |-> r.counter]

\* new_section_marks: the pair of marks and the counter afterwards; made is
\* the record of the allocation behind the pair.
new_section_marks(cnt, name, line_end) ==
    LET s == new_section(cnt, name)
        marks == section_marks(s.section, line_end)
    IN [marks |-> marks, section |-> s.section, counter |-> s.counter,
        made |-> [raw |-> name, name |-> s.name, n |-> s.n,
                  start |-> marks[1], end |-> marks[2]]]

detect_line_end(string, line_end) ==
    IF line_end = None
    THEN IF string # <<>> /\ EndsWith(string, <<NL>>) THEN <<NL>> ELSE <<>>
    ELSE line_end

\* ------------------------------------------------------------ GitLabContext

\* Values passed as fold_enabled / value: strings and non-strings.
Str_(v) == [type |-> "str", val |-> v]
NonStr(t, v) == [type |-> t, val |-> v]

ModeLiterals == {Str_("never"), Str_("always"), Str_("auto")}
ModeValues == ModeLiterals \cup {Str_("bogus"), NonStr("NoneType", "None")}

\* os.environ.get("GITLAB_CI"): "<unset>" stands for a missing variable.
EnvValues == {"<unset>", "true", "1"}

\* A setup_fold_enabled that lets the environment outrank the mode.
setup_fold_enabled_EnvFirst(flag, value, env) ==
    IF value.type = "str"
    THEN IF env = "true" THEN TRUE
         ELSE value.val = "always"
    ELSE flag

\* A setup_fold_enabled without the isinstance test.
setup_fold_enabled_AnyType(flag, value, env) ==
    IF value.val = "never" THEN FALSE
    ELSE IF value.val = "always" THEN TRUE
    ELSE env = "true"

\* The flag after setup_fold_enabled(value), given the flag before it.
setup_fold_enabled(flag, value, env) ==
    IF value.type = "str"
    THEN IF value.val = "never" THEN FALSE
         ELSE IF value.val = "always" THEN TRUE
         ELSE env = "true"
    ELSE flag

\* __init__: the flag starts False, then setup_fold_enabled(fold_enabled).
init_context(value, env) == setup_fold_enabled(FALSE, value, env)

ForceValues == {"None", "True", "False"}

is_fold_enabled(flag, force) ==
    IF force # "None" THEN force = "True" ELSE flag

\* A fold_lines that makes its marks before it looks at the flag.
fold_lines_EagerMarks(flag, cnt, lines, name, line_end, force) ==
    LET le == detect_line_end(IF lines # <<>> THEN lines[Len(lines)] ELSE <<>>,
                              line_end)
        m == new_section_marks(cnt, name, le)
    IN IF ~is_fold_enabled(flag, force)
       THEN [result |-> lines, after |-> lines, counter |-> m.counter,
             made |-> <<>>]
       ELSE [result |-> <<m.marks[1]>> \o lines \o <<m.marks[2]>>,
             after |-> lines,
             counter |-> m.counter,
             made |-> <<m.made>>]

\* A fold_lines that detects the line end from the first line.
fold_lines_FirstLine(flag, cnt, lines, name, line_end, force) ==
    IF ~is_fold_enabled(flag, force)
    THEN [result |-> lines, after |-> lines, counter |-> cnt, made |-> <<>>]
    ELSE LET le == detect_line_end(IF lines # <<>> THEN lines[1] ELSE <<>>,
                                   line_end)
             m == new_section_marks(cnt, name, le)
         IN [result |-> <<m.marks[1]>> \o lines \o <<m.marks[2]>>,
             after |-> lines,
             counter |-> m.counter,
             made |-> <<m.made>>]

\* fold_lines: the returned list, the caller's list afterwards, the counter
\* afterwards and the sections allocated on the way.
fold_lines(flag, cnt, lines, name, line_end, force) ==
    IF ~is_fold_enabled(flag, force)
    THEN [result |-> lines, after |-> lines, counter |-> cnt, made |-> <<>>]
    ELSE LET le == detect_line_end(IF lines # <<>> THEN lines[Len(lines)] ELSE <<>>,
                                   line_end)
             m == new_section_marks(cnt, name, le)
         IN [result |-> <<m.marks[1]>> \o lines \o <<m.marks[2]>>,
             after |-> lines,
             counter |-> m.counter,
             made |-> <<m.made>>]

\* A fold_string that tests the text for a newline, not for line_end.
fold_string_NewlineTest(flag, cnt, string, name, sep, line_end, force) ==
    IF ~is_fold_enabled(flag, force)
    THEN [result |-> string, counter |-> cnt, made |-> <<>>]
    ELSE LET le == detect_line_end(string, line_end)
             sp == IF ~(sep # <<>> \/ EndsWith(string, <<NL>>))
                   THEN <<NL>> ELSE sep
             r == fold_lines(flag, cnt, <<string>>, name, le, force)
         IN [result |-> Join(sp, r.result), counter |-> r.counter,
             made |-> r.made]

\* A fold_string that always separates with a newline when sep is empty.
fold_string_AlwaysNewline(flag, cnt, string, name, sep, line_end, force) ==
    IF ~is_fold_enabled(flag, force)
    THEN [result |-> string, counter |-> cnt, made |-> <<>>]
    ELSE LET le == detect_line_end(string, line_end)
             sp == IF sep = <<>> THEN <<NL>> ELSE sep
             r == fold_lines(flag, cnt, <<string>>, name, le, force)
         IN [result |-> Join(sp, r.result), counter |-> r.counter,
             made |-> r.made]

fold_string(flag, cnt, string, name, sep, line_end, force) ==
    IF ~is_fold_enabled(flag, force)
    THEN [result |-> string, counter |-> cnt, made |-> <<>>]
    ELSE LET le == detect_line_end(string, line_end)
             sp == IF ~(sep # <<>> \/ (le # <<>> /\ EndsWith(string, le)))
                   THEN <<NL>> ELSE sep
             r == fold_lines(flag, cnt, <<string>>, name, le, force)
         IN [result |-> Join(sp, r.result), counter |-> r.counter,
             made |-> r.made]

Files == {"stdout", "stderr"}

\* sys.stdout at the moment of the call.
SysStdout == "stdout"

\* folding_output up to its yield: the generator's frame, the files and the
\* counter afterwards.
folding_output_enter(flag, cnt, fs, name, file, force) ==
    IF ~is_fold_enabled(flag, force)
    THEN [frame |-> [enabled |-> FALSE, file |-> "None", end_mark |-> <<>>,
                     section |-> <<>>],
          files |-> fs, counter |-> cnt, made |-> <<>>]
    ELSE LET f == IF file = "None" THEN SysStdout ELSE file
             m == new_section_marks(cnt, name, <<NL>>)
         IN [frame |-> [enabled |-> TRUE, file |-> f, end_mark |-> m.marks[2],
                        section |-> m.section],
             files |-> [fs EXCEPT ![f] = Append(@, m.marks[1])],
             counter |-> m.counter,
             made |-> <<m.made>>]

\* A folding_output without try/finally: a fault in the body skips the end mark.
folding_output_exit_NoFinally(frame, fs, e) ==
    IF ~frame.enabled \/ e # "None"
    THEN [files |-> fs, exc |-> e]
    ELSE [files |-> [fs EXCEPT ![frame.file] = Append(@, frame.end_mark)],
          exc |-> e]

\* folding_output from its yield on: e is the fault thrown into the
\* generator ("None": the body ended normally); the result holds the files
\* afterwards and the fault that leaves the with statement.
folding_output_exit(frame, fs, e) ==
    IF ~frame.enabled
    THEN [files |-> fs, exc |-> e]
    ELSE [files |-> [fs EXCEPT ![frame.file] = Append(@, frame.end_mark)],
          exc |-> e]

\* ------------------------------------------------------------------- state

VARIABLES
    environ,        \* os.environ.get("GITLAB_CI")
    fold_enabled,   \* GitLabContext.fold_enabled, per engine instance
    built,          \* per engine: the value and environment of its last configuration
    counter,        \* get_and_increment's defaultdict
    files,          \* what has been written to each file, one entry per write()
    stack,          \* the suspended folding_output generators, innermost last
    exc,            \* the fault propagating through the with blocks, or "None"
    ret,            \* the last call: its arguments (but the name) and what it returned
    allocs,         \* every (name, n) get_and_increment has returned, in order
    emitted,        \* every marker pair made, with the name it was asked for, in order
    closed,         \* the folding_output invocations that have exited
    wpc,            \* per worker thread: its position in get_and_increment
    wname,          \* per worker: the name argument of its current call
    wn,             \* per worker: the local n
    wdone,          \* per worker: calls completed
    wrets           \* every (worker, call, name, n) a worker's call returned

vars ==
    <<environ, fold_enabled, built, counter, files, stack, exc, ret, allocs,
      emitted, closed, wpc, wname, wn, wdone, wrets>>

engineVars == <<environ, fold_enabled, built>>
outputVars == <<files, stack, exc, closed>>
allocVars == <<counter, allocs, emitted>>
workerVars == <<wpc, wname, wn, wdone, wrets>>

Engines == {1, 2}
Workers == {1, 2}

Faults == {"ValueError"}

\* -------------------------------------------------------------- input sets

RawNames == {<<>>, <<"X", " ", "y">>, <<"x", "-", "-", "y">>}
NormNames == {normalize_name(nm) : nm \in RawNames}

LineEnds == {None, <<>>, <<NL>>}

LinesInputs ==
    {<<>>, << <<>> >>, << <<NL>> >>, << <<"a">> >>, << <<"a", NL>> >>,
     << <<"a", NL>>, <<"b">> >>}

StringInputs ==
    {<<>>, <<NL>>, <<"a">>, <<"a", NL>>, <<"a", NL, "b", NL>>, <<"a", ";">>,
     <<"b", "o", "o", "!", NL>>}

StringLineEnds == LineEnds \cup {<<";">>}

Seps == {<<>>, <<",">>}

BodyTexts == {<<"a", NL>>}

\* -------------------------------------------------------------------- Init

Init ==
    /\ environ = "<unset>"
    /\ fold_enabled = [e \in Engines |-> init_context(Str_("auto"), "<unset>")]
    /\ built = [e \in Engines |-> [value |-> Str_("auto"), env |-> "<unset>"]]
    /\ counter = <<>>
    /\ files = [f \in Files |-> <<>>]
    /\ stack = <<>>
    /\ exc = "None"
    /\ ret = [op |-> "init"]
    /\ allocs = <<>>
    /\ emitted = <<>>
    /\ closed = {}
    /\ wpc = [w \in Workers |-> "idle"]
    /\ wname = [w \in Workers |-> <<>>]
    /\ wn = [w \in Workers |-> 0]
    /\ wdone = [w \in Workers |-> 0]
    /\ wrets = {}

\* ------------------------------------------------------------------ actions

\* The host sets or deletes GITLAB_CI.
SetEnv(v) ==
    /\ exc = "None"
    /\ environ' = v
    /\ ret' = [op |-> "setenv", value |-> v]
    /\ UNCHANGED <<fold_enabled, built, outputVars, allocVars, workerVars>>

\* gitlab = GitLabContext(value), replacing engine e.
Construct(e, value) ==
    /\ exc = "None"
    /\ fold_enabled' = [fold_enabled EXCEPT ![e] = init_context(value, environ)]
    /\ built' = [built EXCEPT ![e] = [value |-> value, env |-> environ]]
    /\ ret' = [op |-> "construct", e |-> e, value |-> value, env |-> environ,
               old |-> fold_enabled[e]]
    /\ UNCHANGED <<environ, outputVars, allocVars, workerVars>>

\* gitlab.setup_fold_enabled(value)
Setup(e, value) ==
    /\ exc = "None"
    /\ fold_enabled' =
           [fold_enabled EXCEPT ![e] = setup_fold_enabled(@, value, environ)]
    /\ built' = [built EXCEPT ![e] = [value |-> value, env |-> environ]]
    /\ ret' = [op |-> "setup", e |-> e, value |-> value, env |-> environ,
               old |-> fold_enabled[e]]
    /\ UNCHANGED <<environ, outputVars, allocVars, workerVars>>

\* gitlab.is_fold_enabled(force)
IsFoldEnabled(e, force) ==
    /\ exc = "None"
    /\ ret' = [op |-> "is_fold_enabled", e |-> e, force |-> force,
               result |-> is_fold_enabled(fold_enabled[e], force)]
    /\ UNCHANGED <<engineVars, outputVars, allocVars, workerVars>>

\* get_and_increment(name), called directly.
GetAndIncrement(name) ==
    /\ exc = "None"
    /\ Len(allocs) < MaxAlloc
    /\ LET r == get_and_increment(counter, name)
       IN /\ counter' = r.counter
          /\ allocs' = Append(allocs, [name |-> name, n |-> r.n])
          /\ ret' = [op |-> "get_and_increment", name |-> name, result |-> r.n]
    /\ UNCHANGED <<engineVars, outputVars, emitted, workerVars>>

Allocated(made) == [i \in 1..Len(made) |-> [name |-> made[i].name, n |-> made[i].n]]
Emitted(made) ==
    [i \in 1..Len(made) |->
        [raw |-> made[i].raw, start |-> made[i].start, end |-> made[i].end]]

\* gitlab.fold_lines(lines, name, line_end, force)
FoldLines(e, lines, name, line_end, force) ==
    /\ exc = "None"
    /\ LET r == fold_lines(fold_enabled[e], counter, lines, name, line_end, force)
       IN /\ Len(allocs) + Len(r.made) <= MaxAlloc
          /\ counter' = r.counter
          /\ allocs' = allocs \o Allocated(r.made)
          /\ emitted' = emitted \o Emitted(r.made)
          /\ ret' = [op |-> "fold_lines", e |-> e, input |-> lines,
                     line_end |-> line_end, force |-> force,
                     result |-> r.result, after |-> r.after]
    /\ UNCHANGED <<engineVars, outputVars, workerVars>>

\* gitlab.fold_string(string, name, sep, line_end, force)
FoldString(e, string, name, sep, line_end, force) ==
    /\ exc = "None"
    /\ LET r == fold_string(fold_enabled[e], counter, string, name, sep, line_end,
                            force)
       IN /\ Len(allocs) + Len(r.made) <= MaxAlloc
          /\ counter' = r.counter
          /\ allocs' = allocs \o Allocated(r.made)
          /\ emitted' = emitted \o Emitted(r.made)
          /\ ret' = [op |-> "fold_string", e |-> e, input |-> string,
                     sep |-> sep, line_end |-> line_end, force |-> force,
                     result |-> r.result]
    /\ UNCHANGED <<engineVars, outputVars, workerVars>>

\* with gitlab.folding_output(name, file, force): up to the body.
FoldingOutputEnter(e, name, file, force) ==
    /\ exc = "None"
    /\ Len(stack) < MaxDepth
    /\ LET r == folding_output_enter(fold_enabled[e], counter, files, name, file,
                                     force)
       IN /\ Len(allocs) + Len(r.made) <= MaxAlloc
          /\ counter' = r.counter
          /\ allocs' = allocs \o Allocated(r.made)
          /\ emitted' = emitted \o Emitted(r.made)
          /\ files' = r.files
          /\ stack' = Append(stack, r.frame)
          /\ ret' = [op |-> "folding_output", e |-> e, file |-> file,
                     force |-> force,
                     written |-> [f \in Files |->
                         SubSeq(r.files[f], Len(files[f]) + 1, Len(r.files[f]))]]
    /\ UNCHANGED <<engineVars, exc, closed, workerVars>>

\* The body of the innermost with block writes to a file.
BodyWrite(f, text) ==
    /\ exc = "None"
    /\ stack # <<>>
    /\ \A i \in 1..Len(files[f]) : files[f][i] # text
    /\ files' = [files EXCEPT ![f] = Append(@, text)]
    /\ ret' = [op |-> "write", file |-> f, text |-> text]
    /\ UNCHANGED <<engineVars, stack, exc, closed, allocVars, workerVars>>

\* The body of the innermost with block raises.
BodyRaise(fault) ==
    /\ exc = "None"
    /\ stack # <<>>
    /\ exc' = fault
    /\ ret' = [op |-> "raise", fault |-> fault]
    /\ UNCHANGED <<engineVars, files, stack, closed, allocVars, workerVars>>

\* The innermost with block is left, normally or by the propagating fault.
FoldingOutputExit ==
    /\ stack # <<>>
    /\ LET frame == stack[Len(stack)]
           r == folding_output_exit(frame, files, exc)
       IN /\ files' = r.files
          /\ exc' = r.exc
          /\ stack' = SubSeq(stack, 1, Len(stack) - 1)
          /\ closed' = IF frame.enabled
                       THEN closed \cup {[section |-> frame.section,
                                          file |-> frame.file,
                                          thrown |-> exc, raised |-> r.exc]}
                       ELSE closed
          /\ ret' = [op |-> "exit", enabled |-> frame.enabled, thrown |-> exc,
                     raised |-> r.exc]
    /\ UNCHANGED <<engineVars, allocVars, workerVars>>

\* The code around the with block handles the fault that reached it.
Catch ==
    /\ exc # "None"
    /\ exc' = "None"
    /\ ret' = [op |-> "except", fault |-> exc, depth |-> Len(stack)]
    /\ UNCHANGED <<engineVars, files, stack, closed, allocVars, workerVars>>

\* ------------------------------------------- get_and_increment, by threads

\* A worker thread calls get_and_increment(name).
WorkerCall(w, name) ==
    /\ wpc[w] = "idle"
    /\ wdone[w] < MaxCalls
    /\ wpc' = [wpc EXCEPT ![w] = "read"]
    /\ wname' = [wname EXCEPT ![w] = name]
    /\ UNCHANGED <<engineVars, outputVars, allocVars, ret, wn, wdone, wrets>>

\* n = counter[name]; the defaultdict stores 0 for a missing key.
WorkerRead(w) ==
    /\ wpc[w] = "read"
    /\ wn' = [wn EXCEPT ![w] = CounterGet(counter, wname[w])]
    /\ counter' = CounterSet(counter, wname[w], CounterGet(counter, wname[w]))
    /\ wpc' = [wpc EXCEPT ![w] = "write"]
    /\ UNCHANGED <<engineVars, outputVars, allocs, emitted, ret, wname, wdone, wrets>>

\* counter[name] = n + 1
WorkerWrite(w) ==
    /\ wpc[w] = "write"
    /\ counter' = CounterSet(counter, wname[w], wn[w] + 1)
    /\ wpc' = [wpc EXCEPT ![w] = "return"]
    /\ UNCHANGED <<engineVars, outputVars, allocs, emitted, ret, wname, wn, wdone, wrets>>

\* return n
WorkerReturn(w) ==
    /\ wpc[w] = "return"
    /\ wrets' = wrets \cup {[worker |-> w, call |-> wdone[w] + 1,
                             name |-> wname[w], n |-> wn[w]]}
    /\ wdone' = [wdone EXCEPT ![w] = @ + 1]
    /\ wpc' = [wpc EXCEPT ![w] = "idle"]
    /\ UNCHANGED <<engineVars, outputVars, allocVars, ret, wname, wn>>

\* ----------------------------------------------------------- specifications

\* The three folding operations on two engines sharing the process's counter:
\* engine 1 is rebuilt with "always", engine 2 stays as constructed and folds
\* only when forced; two of the names normalize to the same string; sections
\* do not nest here.
Next ==
    \/ Construct(1, Str_("always"))
    \/ \E e \in Engines, name \in {<<>>, <<"X", " ", "y">>}, force \in ForceValues :
            FoldLines(e, << <<"a", NL>> >>, name, None, force)
    \/ \E e \in Engines, name \in {<<>>, <<"x", "-", "-", "y">>},
          force \in ForceValues :
            FoldString(e, <<"a", NL>>, name, <<>>, None, force)
    \/ \E e \in Engines, name \in RawNames, force \in ForceValues :
            /\ stack = <<>>
            /\ FoldingOutputEnter(e, name, "None", force)
    \/ FoldingOutputExit

Spec == Init /\ [][Next]_vars

\* The allocator alone: get_and_increment and new_section over a few names.
AllocNames == NormNames \cup {<<"x">>, <<"y">>}

\* new_section(name), called directly.
NewSection(name) ==
    /\ exc = "None"
    /\ Len(allocs) < MaxAlloc
    /\ LET r == new_section(counter, name)
       IN /\ counter' = r.counter
          /\ allocs' = Append(allocs, [name |-> r.name, n |-> r.n])
          /\ ret' = [op |-> "new_section", name |-> name, result |-> r.section]
    /\ UNCHANGED <<engineVars, outputVars, emitted, workerVars>>

NextAlloc ==
    \/ \E name \in AllocNames : GetAndIncrement(name)
    \/ \E name \in RawNames : NewSection(name)

SpecAlloc == Init /\ [][NextAlloc]_vars

\* The scoped fold: nested with blocks, bodies that write and raise, on an
\* engine left as constructed (folding is off unless forced).
NextOut ==
    \/ \E file \in {"stderr", "None"}, force \in ForceValues :
            FoldingOutputEnter(1, <<"x", "-", "-", "y">>, file, force)
    \/ \E text \in BodyTexts : BodyWrite("stdout", text)
    \/ \E fault \in Faults : BodyRaise(fault)
    \/ FoldingOutputExit
    \/ Catch

SpecOut == Init /\ [][NextOut]_vars

\* fold_lines and fold_string, one call each: the initial state draws the
\* engine's mode, the allocations made so far and the call's arguments.
RECURSIVE Earlier(_, _)
\* The allocator after k earlier new_section(name) calls.
Earlier(k, name) ==
    IF k = 0 THEN [counter |-> <<>>, allocs |-> <<>>, emitted |-> <<>>]
    ELSE LET before == Earlier(k - 1, name)
             s == new_section(before.counter, name)
         IN [counter |-> s.counter,
             allocs |-> Append(before.allocs, [name |-> s.name, n |-> s.n]),
             emitted |-> Append(before.emitted,
                 [raw |-> name, start |-> section_marks(s.section, <<>>)[1],
                  end |-> section_marks(s.section, <<>>)[2]])]

PureNames == RawNames \cup {<<"s", "t", "d", "o", "u", "t">>}

PureCalls ==
    [op : {"call fold_lines"}, input : LinesInputs, name : PureNames,
     line_end : LineEnds, force : ForceValues]
    \cup
    [op : {"call fold_string"}, input : StringInputs, name : PureNames,
     sep : Seps, line_end : StringLineEnds, force : ForceValues]

InitPure ==
    /\ environ = "<unset>"
    /\ \E value \in {Str_("never"), Str_("always")} :
          /\ fold_enabled = [e \in Engines |-> init_context(value, "<unset>")]
          /\ built = [e \in Engines |-> [value |-> value, env |-> "<unset>"]]
    /\ \E k \in 0..(MaxAlloc - 1), name \in RawNames :
          /\ counter = Earlier(k, name).counter
          /\ allocs = Earlier(k, name).allocs
          /\ emitted = Earlier(k, name).emitted
    /\ files = [f \in Files |-> <<>>]
    /\ stack = <<>>
    /\ exc = "None"
    /\ ret \in PureCalls
    /\ closed = {}
    /\ wpc = [w \in Workers |-> "idle"]
    /\ wname = [w \in Workers |-> <<>>]
    /\ wn = [w \in Workers |-> 0]
    /\ wdone = [w \in Workers |-> 0]
    /\ wrets = {}

NextPure ==
    \/ /\ ret.op = "call fold_lines"
       /\ FoldLines(1, ret.input, ret.name, ret.line_end, ret.force)
    \/ /\ ret.op = "call fold_string"
       /\ FoldString(1, ret.input, ret.name, ret.sep, ret.line_end, ret.force)

SpecPure == InitPure /\ [][NextPure]_vars

\* Configuration: the mode, the environment and the force argument; sections
\* do not nest here.
NextCfg ==
    \/ \E v \in EnvValues : SetEnv(v)
    \/ \E value \in ModeValues : Construct(1, value)
    \/ \E value \in ModeValues : Setup(1, value)
    \/ \E force \in ForceValues : IsFoldEnabled(1, force)
    \/ \E force \in ForceValues :
            FoldLines(1, << <<"a", NL>> >>, <<>>, None, force)
    \/ \E force \in ForceValues :
            FoldString(1, <<"a", NL>>, <<>>, <<>>, None, force)
    \/ \E force \in ForceValues :
            /\ stack = <<>>
            /\ FoldingOutputEnter(1, <<>>, "None", force)
    \/ FoldingOutputExit

SpecCfg == Init /\ [][NextCfg]_vars

\* Worker threads sharing the allocator.
NextConc ==
    \/ \E w \in Workers, name \in NormNames : WorkerCall(w, name)
    \/ \E w \in Workers : WorkerRead(w)
    \/ \E w \in Workers : WorkerWrite(w)
    \/ \E w \in Workers : WorkerReturn(w)

SpecConc == Init /\ [][NextConc]_vars

\* ------------------------------------------------------------------ claims

\* The positions in a file's writes that hold the given text.
Positions(log, text) == {i \in 1..Len(log) : log[i] = text}

StartMarkOf(section) == StartToken \o section \o <<NL>>
EndMarkOf(section) == EndToken \o section \o <<NL>>

\* C1: every enabled folding_output writes its start marker before the body
\* runs and its end marker on every way out of the body; a fault raised by
\* the body leaves the with statement unchanged, after the end marker has been
\* written; a closed invocation has exactly one start and one end marker for its
\* section in its file, in that order.
C1_ScopedFoldPairsMarkers ==
    /\ \A r \in closed :
          LET starts == Positions(files[r.file], StartMarkOf(r.section))
              ends == Positions(files[r.file], EndMarkOf(r.section))
          IN /\ Cardinality(starts) = 1
             /\ Cardinality(ends) = 1
             /\ \A i \in starts, j \in ends : i < j
             /\ r.raised = r.thrown
    /\ \A d \in 1..Len(stack) :
          stack[d].enabled =>
              /\ Cardinality(Positions(files[stack[d].file],
                                       StartMarkOf(stack[d].section))) = 1
              /\ Positions(files[stack[d].file], EndMarkOf(stack[d].section)) = {}
    /\ (ret.op = "exit" /\ ret.thrown # "None") => exc = ret.thrown

\* C1 witness: a body raised inside two nested enabled sections, both have
\* closed, and the fault is still propagating.
C1_Witness ==
    /\ Cardinality({r \in closed : r.thrown # "None"}) >= 2
    /\ stack = <<>>
    /\ exc # "None"

\* C2: the k-th call of get_and_increment for a name returns k-1, whatever
\* calls for other names come in between.
C2_SequencePerName ==
    \A i \in 1..Len(allocs) :
        allocs[i].n =
            Cardinality({j \in 1..(i - 1) : allocs[j].name = allocs[i].name})

\* C2 witness: a name is allocated, then another name, then the first again,
\* which gets 1.
C2_Witness ==
    \E i, j, k \in 1..Len(allocs) :
        /\ i < j /\ j < k
        /\ allocs[i].name = allocs[k].name
        /\ allocs[j].name # allocs[i].name
        /\ allocs[k].n = 1

\* C5: no two calls of get_and_increment for the same name, by any threads,
\* return the same number.
C5_NoDuplicateSequence ==
    \A r1, r2 \in wrets :
        (r1 # r2 /\ r1.name = r2.name) => r1.n # r2.n

\* What the claims expect of a call's folding decision.
ExpectEnabled(force, flag) == force = "True" \/ (force = "None" /\ flag)

\* The section identifier the claims expect for the n-th section of a
\* normalized name.
ExpectedId(name, n) ==
    IF name = <<>> THEN Prefix \o <<".">> \o Str(n)
    ELSE Prefix \o <<".">> \o name \o <<".">> \o Str(n)

\* The identifier a log viewer reads from a marker line.
IdOf(mark, token) ==
    LET body == SubSeq(mark, Len(token) + 1, Len(mark))
    IN IF EndsWith(body, <<NL>>) THEN SubSeq(body, 1, Len(body) - 1) ELSE body

StartId(i) == IdOf(emitted[i].start, StartToken)
EndId(i) == IdOf(emitted[i].end, EndToken)

\* a and b are one prefix followed by k and k+1.
ConsecutiveIds(a, b) ==
    \E m \in 1..Len(a), k \in 0..MaxAlloc :
        /\ a[m] = "."
        /\ a = SubSeq(a, 1, m) \o Str(k)
        /\ b = SubSeq(a, 1, m) \o Str(k + 1)

\* C10: every marker pair emitted has one section id in its start and its end,
\* the id is that of exactly one allocation, no two pairs share an id, and two
\* successive sections whose names normalize to the same string differ only in
\* their trailing sequence number, which is consecutive.
C10_SectionIdsUnique ==
    /\ \A i \in 1..Len(emitted) :
          /\ StartsWith(emitted[i].start, StartToken)
          /\ StartsWith(emitted[i].end, EndToken)
          /\ StartId(i) = EndId(i)
          /\ Cardinality({k \in 1..Len(allocs) :
                 StartId(i) = ExpectedId(allocs[k].name, allocs[k].n)}) = 1
    /\ \A i, j \in 1..Len(emitted) : i # j => StartId(i) # StartId(j)
    /\ \A i, j \in 1..Len(emitted) :
          ( /\ i < j
            /\ normalize_name(emitted[i].raw) = normalize_name(emitted[j].raw)
            /\ \A m \in (i + 1)..(j - 1) :
                  normalize_name(emitted[m].raw) # normalize_name(emitted[i].raw) )
          => ConsecutiveIds(StartId(i), StartId(j))

\* C10 witness: three sections, the first and the third asked for under
\* different names that normalize to the same string, on different engines'
\* operations.
C10_Witness ==
    /\ Len(emitted) = 3
    /\ emitted[1].raw # emitted[3].raw
    /\ normalize_name(emitted[1].raw) = normalize_name(emitted[3].raw)
    /\ normalize_name(emitted[2].raw) # normalize_name(emitted[1].raw)
    /\ closed # {}

C3_Step ==
    /\ ( /\ ret'.op \in {"fold_lines", "fold_string", "folding_output"}
         /\ ~ExpectEnabled(ret'.force, fold_enabled[ret'.e]) )
       => /\ counter' = counter
          /\ allocs' = allocs
          /\ emitted' = emitted
          /\ files' = files
          /\ ret'.op \in {"fold_lines", "fold_string"} => ret'.result = ret'.input
          /\ ret'.op = "fold_lines" => ret'.after = ret'.input
          /\ ret'.op = "folding_output" =>
                 /\ stack' = Append(stack, stack'[Len(stack')])
                 /\ ~stack'[Len(stack')].enabled
    /\ (ret'.op = "exit" /\ ~ret'.enabled) =>
          /\ files' = files
          /\ counter' = counter

\* C3: a call whose folding evaluates to disabled (flag false and no force,
\* or force=False) passes through: fold_lines and fold_string return their
\* input, folding_output writes nothing on entry or exit, and no counter moves.
C3_DisabledPassThrough == [][C3_Step]_vars

\* C3 witness: force=False on an engine whose flag is true, after a section
\* was allocated, returned its input.
C3_Witness ==
    /\ ret.op = "fold_lines"
    /\ ret.force = "False"
    /\ fold_enabled[ret.e]
    /\ allocs # <<>>
    /\ ret.result = ret.input

\* Whether the last call folded, from what it returned or wrote.
Folded ==
    CASE ret.op = "is_fold_enabled" -> ret.result
      [] ret.op \in {"fold_lines", "fold_string"} -> ret.result # ret.input
      [] ret.op = "folding_output" -> \E f \in Files : ret.written[f] # <<>>

FoldOps == {"is_fold_enabled", "fold_lines", "fold_string", "folding_output"}

\* C4: force=True folds and force=False does not, whatever the mode and the
\* environment; with no force, "always" folds, "never" does not, and "auto"
\* folds exactly when GITLAB_CI was "true" when the engine was configured.
C4_Precedence ==
    ret.op \in FoldOps =>
        LET b == built[ret.e]
        IN /\ ret.force = "True" => Folded
           /\ ret.force = "False" => ~Folded
           /\ (ret.force = "None" /\ b.value = Str_("always")) => Folded
           /\ (ret.force = "None" /\ b.value = Str_("never")) => ~Folded
           /\ (ret.force = "None" /\ b.value = Str_("auto")) =>
                  (Folded <=> b.env = "true")

\* C4 witness: an engine built with "never" while GITLAB_CI is "true" does
\* not fold a string when no force is given.
C4_Witness ==
    /\ ret.op = "fold_string"
    /\ ret.force = "None"
    /\ built[ret.e] = [value |-> Str_("never"), env |-> "true"]
    /\ ret.result = ret.input

\* C9 as claimed: every mode value other than "never" and "always", whatever
\* its type, sets the flag to GITLAB_CI = "true".
C9_AnyValueIsAuto ==
    ( /\ ret.op \in {"construct", "setup"}
      /\ ret.value \notin {Str_("never"), Str_("always")} )
    => (fold_enabled[ret.e] <=> ret.env = "true")

\* C9 amended: every string other than "never" and "always" sets the flag
\* to GITLAB_CI = "true"; a value that is not a string leaves the flag as it
\* was, which is false in the constructor.
C9_AnyStringIsAuto ==
    ret.op \in {"construct", "setup"} =>
        /\ ( /\ ret.value.type = "str"
             /\ ret.value \notin {Str_("never"), Str_("always")} )
           => (fold_enabled[ret.e] <=> ret.env = "true")
        /\ (ret.value.type # "str" /\ ret.op = "construct") =>
               ~fold_enabled[ret.e]
        /\ (ret.value.type # "str" /\ ret.op = "setup") =>
               (fold_enabled[ret.e] <=> ret.old)

\* C9 witness: setup_fold_enabled(None) on an enabled engine while GITLAB_CI
\* is unset leaves it enabled.
C9_Witness ==
    /\ ret.op = "setup"
    /\ ret.value.type # "str"
    /\ ret.env = "<unset>"
    /\ ret.old
    /\ fold_enabled[ret.e]

\* The marker pair the claims expect of the last allocation, ended by L.
LastId == ExpectedId(allocs[Len(allocs)].name, allocs[Len(allocs)].n)
ExpectedStart(L) == StartToken \o LastId \o L
ExpectedEnd(L) == EndToken \o LastId \o L

\* The terminator the claims expect: line_end when given, else "\n" when the
\* sample is non-empty and ends with "\n", else "".
ExpectedLineEnd(sample, line_end) ==
    IF line_end # None THEN line_end
    ELSE IF sample # <<>> /\ sample[Len(sample)] = NL THEN <<NL>>
    ELSE <<>>

\* C6: an enabled fold_string returns start + s + text + s + end, with the
\* terminator L and the separator s of the claim; fold_string("boo!\n",
\* name="stdout") is the start marker, "\n", "boo!\n", the end marker, "\n".
C6_FoldStringShape ==
    (ret.op = "fold_string" /\ ExpectEnabled(ret.force, fold_enabled[ret.e])) =>
        LET text == ret.input
            L == ExpectedLineEnd(text, ret.line_end)
            s == IF ret.sep # <<>> THEN ret.sep
                 ELSE IF L # <<>> /\ EndsWith(text, L) THEN <<>>
                 ELSE <<NL>>
        IN /\ ret.result = ExpectedStart(L) \o s \o text \o s \o ExpectedEnd(L)
           /\ ( /\ text = <<"b", "o", "o", "!", NL>>
                /\ emitted[Len(emitted)].raw = <<"s", "t", "d", "o", "u", "t">>
                /\ ret.sep = <<>>
                /\ ret.line_end = None )
              => ret.result =
                     StartToken
                     \o <<"p", "y", "-", "4", "2", ".", "s", "t", "d", "o", "u",
                          "t", ".", "0", NL>>
                     \o <<"b", "o", "o", "!", NL>>
                     \o EndToken
                     \o <<"p", "y", "-", "4", "2", ".", "s", "t", "d", "o", "u",
                          "t", ".", "0", NL>>

\* C6 witness: fold_string("boo!\n", name="stdout") was folded by the flag.
C6_Witness ==
    /\ ret.op = "fold_string"
    /\ ret.input = <<"b", "o", "o", "!", NL>>
    /\ emitted # <<>>
    /\ emitted[Len(emitted)].raw = <<"s", "t", "d", "o", "u", "t">>
    /\ ret.sep = <<>>
    /\ ret.line_end = None
    /\ ret.force = "None"
    /\ ret.result # ret.input

\* C7: an enabled fold_lines returns [start] + lines + [end] and leaves its
\* input as it was; both marks carry one section id and end with line_end when
\* given, else with "\n" when the last line is non-empty and ends with "\n",
\* else with nothing; for no lines the result is [start, end].
C7_FoldLinesShape ==
    (ret.op = "fold_lines" /\ ExpectEnabled(ret.force, fold_enabled[ret.e])) =>
        LET lines == ret.input
            L == ExpectedLineEnd(IF lines = <<>> THEN <<>> ELSE lines[Len(lines)],
                                 ret.line_end)
        IN /\ ret.result = <<ExpectedStart(L)>> \o lines \o <<ExpectedEnd(L)>>
           /\ ret.after = lines
           /\ lines = <<>> => Len(ret.result) = 2

\* C7 witness: two lines, only the first ending with a newline, no line_end
\* given: the marks end with nothing.
C7_Witness ==
    /\ ret.op = "fold_lines"
    /\ ret.input = << <<"a", NL>>, <<"b">> >>
    /\ ret.line_end = None
    /\ Len(ret.result) = 4
    /\ ret.result[1][Len(ret.result[1])] # NL

RECURSIVE SplitLines(_)
\* str.splitlines() for text whose only line break is "\n"
SplitLines(s) ==
    IF s = <<>> THEN <<>>
    ELSE IF \E i \in 1..Len(s) : s[i] = NL
         THEN LET i == CHOOSE i \in 1..Len(s) :
                           s[i] = NL /\ \A j \in 1..(i - 1) : s[j] # NL
              IN <<SubSeq(s, 1, i - 1)>> \o SplitLines(SubSeq(s, i + 1, Len(s)))
         ELSE <<s>>

\* "\n\n" in s
HasBlankLine(s) == \E i \in 1..(Len(s) - 1) : s[i] = NL /\ s[i + 1] = NL

\* A fold_string(text, line_end=terminator) call that folded.
C8_Call ==
    /\ ret.op = "fold_string"
    /\ ExpectEnabled(ret.force, fold_enabled[ret.e])
    /\ ret.line_end # None
    /\ ret.sep = <<>>

\* C8 as claimed: the result starts with the start marker and ends with the
\* end marker, and with a non-empty terminator and non-empty interior lines of
\* the text it has no two consecutive newlines.
C8_NoBlankLineWhenInteriorNonEmpty ==
    C8_Call =>
        LET text == ret.input
            lines == SplitLines(text)
        IN /\ StartsWith(ret.result, ExpectedStart(ret.line_end))
           /\ EndsWith(ret.result, ExpectedEnd(ret.line_end))
           /\ ( /\ ret.line_end # <<>>
                /\ \A i \in 2..(Len(lines) - 1) : lines[i] # <<>> )
              => ~HasBlankLine(ret.result)

\* C8 amended: the result starts with the start marker and ends with the end
\* marker, and with a non-empty terminator that the text ends with, and every
\* line of the text non-empty, it has no two consecutive newlines.
C8_NoBlankLineWhenTerminated ==
    C8_Call =>
        LET text == ret.input
            lines == SplitLines(text)
        IN /\ StartsWith(ret.result, ExpectedStart(ret.line_end))
           /\ EndsWith(ret.result, ExpectedEnd(ret.line_end))
           /\ ( /\ ret.line_end # <<>>
                /\ ~HasBlankLine(ret.line_end)
                /\ EndsWith(text, ret.line_end)
                /\ \A i \in 1..Len(lines) : lines[i] # <<>> )
              => ~HasBlankLine(ret.result)

\* C8 witness: a two-line text ending with the terminator "\n" was folded.
C8_Witness ==
    /\ C8_Call
    /\ ret.line_end = <<NL>>
    /\ ret.input = <<"a", NL, "b", NL>>
    /\ ~HasBlankLine(ret.result)

====
